---- MODULE Spec2Model ----
(***************************************************************************)
(* A model of the movie discovery page: the search telemetry adapter       *)
(* (src/src/appwrite.js: updateSearchCount, getTrendingMovies) and the     *)
(* App component that drives it (src/src/App.jsx: fetchMovies,             *)
(* loadTrendingMovies, the debounce and the two render sections).          *)
(*                                                                         *)
(* Every await of the source is a point where other callbacks of the       *)
(* single-threaded event loop may run, so each async function is split     *)
(* into one action per awaited request.  A request to the document store   *)
(* is modelled at the moment the store serves it; the continuation of the  *)
(* caller up to its next await belongs to the same action.                 *)
(***************************************************************************)
EXTENDS Naturals, Sequences, FiniteSets, TLC

\* ------------------------------------------------------------------ bounds

\* Number of updateSearchCount calls an outside caller may start.
MaxCalls == 3

\* Number of fetchMovies calls one page session may start, the mount's
\* included.
MaxFetches == 2

\* Largest number of documents and largest count of the collections the
\* trending read is tried on.
MaxDocs == 6
MaxCount == 3

\* Largest length of the query texts the endpoint is built from.
MaxLen == 3

\* ------------------------------------------------------- program constants

\* Query.limit(5) of getTrendingMovies.
TrendingLimit == 5

\* The image host prefix of the poster_url template.
PosterBase == "https://image.tmdb.org/t/p/w500"

\* The message fetchMovies shows from its catch block.
CatchMessage == "Error fetching movies. Please try again later."

\* The fallback message of the data.response === 'False' branch.
FailedMessage == "Failed to fetch movies"

\* The message loadTrendingMovies shows from its catch block.
TrendingCatchMessage == "Failed to load trending movies."

\* ------------------------------------------------------------- value sets

Calls == 1..MaxCalls

\* Non-empty search terms a user may type.
Terms == {"dune", "up"}

\* JavaScript's null, as TMDB sends it for a movie without a poster.
Null == "<null>"

\* Movie objects as the movie service returns them (id, poster_path).
Movies == { [id |-> 1, poster_path |-> "/p1.jpg"],
            [id |-> 2, poster_path |-> Null] }

\* What a template literal makes of a value: null prints as "null".
TemplateString(v) == IF v = Null THEN "null" ELSE v

\* Mutant of PosterUrl: the path stored without the image host prefix.
PosterUrl_NoPrefix(movie) == TemplateString(movie.poster_path)

\* `https://image.tmdb.org/t/p/w500${movie.poster_path}`
PosterUrl(movie) == PosterBase \o TemplateString(movie.poster_path)

\* ------------------------------------------------------------------ state

VARIABLES
  store,               \* the collection: documents in insertion order
  store0,              \* history: the collection as the behaviour found it
  rs,                  \* rs[c]: the updateSearchCount call c
  nCalls,              \* calls started so far
  overlap,             \* history: some call started while another was in flight
  searchTerm,          \* useState('')   the input's value
  debounceSearchTerm,  \* useState('')   the debounced value
  timers,              \* the values the pending useDebounce timeouts captured
  cleared,             \* (history) the values whose pending timeouts the
                       \* latest input event cleared
  errorMessage,        \* useState('')
  moviesList,          \* useState([])
  isLoading,           \* useState(false)
  trendingMovies,      \* useState([])
  isTrendingLoading,   \* useState(false)
  trendingError,       \* useState('')
  fetch,               \* fetch[f]: the fetchMovies call f
  trend,               \* the loadTrendingMovies call
  mounted,             \* the mount effects have run
  request              \* the query and the endpoint fetchMovies built from it

uiVars == <<searchTerm, debounceSearchTerm, timers, cleared, errorMessage,
            moviesList, isLoading, trendingMovies, isTrendingLoading,
            trendingError, fetch, trend, mounted, request>>
vars == <<store, store0, rs, nCalls, overlap, searchTerm, debounceSearchTerm,
          timers, cleared, errorMessage, moviesList, isLoading, trendingMovies,
          isTrendingLoading, trendingError, fetch, trend, mounted, request>>

\* ------------------------------------------------- the document store SDK

\* A document snapshot as updateSearchCount uses it: doc.$id and doc.count.
NoDoc == [id |-> 0, count |-> 0]

\* database.listDocuments(..., [Query.equal('searchTerm', searchTerm)])
ListDocumentsEqual(docs, term) == SelectSeq(docs, LAMBDA d : d.searchTerm = term)

\* ID.unique(): an identifier no document of the collection has.
UniqueId(docs) == Len(docs) + 1

\* Mutant of UpdateDocument: the data replaces the document instead of
\* patching it, so the fields it does not name are lost.
UpdateDocument_Replace(docs, id, data) ==
  [i \in DOMAIN docs |->
     IF docs[i].id = id
       THEN [docs[i] EXCEPT !.count = data.count, !.movie_id = 0, !.poster_url = ""]
       ELSE docs[i]]

\* database.updateDocument(..., id, data): a partial update of document id.
UpdateDocument(docs, id, data) ==
  [i \in DOMAIN docs |->
     IF docs[i].id = id THEN [docs[i] EXCEPT !.count = data.count] ELSE docs[i]]

\* Mutant of CreateDocument: a store that enforces one document per
\* searchTerm and drops a create that would add a second one.
CreateDocument_UniqueTerm(docs, id, data) ==
  IF \E i \in DOMAIN docs : docs[i].searchTerm = data.searchTerm
    THEN docs
    ELSE Append(docs, [id |-> id, searchTerm |-> data.searchTerm,
                       count |-> data.count, movie_id |-> data.movie_id,
                       poster_url |-> data.poster_url])

\* database.createDocument(..., id, data): one more document.
CreateDocument(docs, id, data) ==
  Append(docs, [id |-> id, searchTerm |-> data.searchTerm, count |-> data.count,
                movie_id |-> data.movie_id, poster_url |-> data.poster_url])

\* ------------------------------------------------------ updateSearchCount

\* Mutant of Found: the branch taken only for two matches or more.
Found_MoreThanOne(result) == Len(result) > 1

\* result.documents.length > 0
Found(result) == Len(result) > 0

\* Mutant of IncrementPayload: the count written back as it was read.
IncrementPayload_NoIncrement(doc) == [count |-> doc.count]

\* { count: doc.count + 1 }
IncrementPayload(doc) == [count |-> doc.count + 1]

\* { searchTerm, count: 1, movie_id: movie.id, poster_url: `...` }
CreatePayload(term, movie) ==
  [searchTerm |-> term, count |-> 1, movie_id |-> movie.id,
   poster_url |-> PosterUrl(movie)]

IdleCall == [pc |-> "idle", term |-> "", movie |-> 0, doc |-> NoDoc,
             found |-> FALSE, failed |-> FALSE]

InFlight == {"listDocuments", "updateDocument", "createDocument"}

\* The call record of updateSearchCount(term, movie) up to its first await.
EnterUpdateSearchCount(term, movie) ==
  [pc |-> "listDocuments", term |-> term, movie |-> movie.id, doc |-> NoDoc,
   found |-> FALSE, failed |-> FALSE]

SomeCallInFlight == \E c \in Calls : rs[c].pc \in InFlight

MovieById(id) == CHOOSE m \in Movies : m.id = id

\* An outside caller calls updateSearchCount(term, movie).
CallUpdateSearchCount(term, movie) ==
  /\ nCalls < MaxCalls
  /\ nCalls' = nCalls + 1
  /\ rs' = [rs EXCEPT ![nCalls + 1] = EnterUpdateSearchCount(term, movie)]
  /\ overlap' = (overlap \/ SomeCallInFlight)
  /\ UNCHANGED <<store, store0, uiVars>>

\* The store serves listDocuments; the call branches on what it read.
RsListDocuments(c) ==
  /\ rs[c].pc = "listDocuments"
  /\ LET result == ListDocumentsEqual(store, rs[c].term) IN
       rs' = [rs EXCEPT ![c] =
                IF Found(result)
                  THEN [@ EXCEPT !.pc = "updateDocument", !.found = TRUE,
                                 !.doc = [id |-> result[1].id,
                                          count |-> result[1].count]]
                  ELSE [@ EXCEPT !.pc = "createDocument"]]
  /\ UNCHANGED <<store, store0, nCalls, overlap, uiVars>>

\* The store serves updateDocument; the call returns.
RsUpdateDocument(c) ==
  /\ rs[c].pc = "updateDocument"
  /\ store' = UpdateDocument(store, rs[c].doc.id, IncrementPayload(rs[c].doc))
  /\ rs' = [rs EXCEPT ![c].pc = "returned", ![c].doc = NoDoc]
  /\ UNCHANGED <<store0, nCalls, overlap, uiVars>>

\* The store serves createDocument; the call returns.
RsCreateDocument(c) ==
  /\ rs[c].pc = "createDocument"
  /\ store' = CreateDocument(store, UniqueId(store),
                             CreatePayload(rs[c].term, MovieById(rs[c].movie)))
  /\ rs' = [rs EXCEPT ![c].pc = "returned", ![c].doc = NoDoc]
  /\ UNCHANGED <<store0, nCalls, overlap, uiVars>>

\* The awaited request rejects: catch (error) { console.log(error) }.
RsStoreFailure(c) ==
  /\ rs[c].pc \in InFlight
  /\ rs' = [rs EXCEPT ![c].pc = "returned", ![c].failed = TRUE, ![c].doc = NoDoc]
  /\ UNCHANGED <<store, store0, nCalls, overlap, uiVars>>

\* Mutant of UpdateSearchCountRejects: the catch block rethrows.
UpdateSearchCountRejects_Rethrow(failed) == failed

\* Whether the promise of updateSearchCount rejects, given that one of its
\* awaited requests did: its catch block logs the error and returns.
UpdateSearchCountRejects(failed) == FALSE

\* ------------------------------------------------------ getTrendingMovies

\* docs with document d put before the first document whose count is lower:
\* a stable descending insertion, ties staying in insertion order.
RECURSIVE InsertDesc(_, _)
InsertDesc(d, docs) ==
  IF docs = <<>> THEN <<d>>
  ELSE IF Head(docs).count < d.count THEN <<d>> \o docs
  ELSE <<Head(docs)>> \o InsertDesc(d, Tail(docs))

\* Query.orderDesc('count')
RECURSIVE OrderDescCount(_)
OrderDescCount(docs) ==
  IF docs = <<>> THEN <<>>
  ELSE InsertDesc(docs[1], OrderDescCount(Tail(docs)))

\* Query.limit(n)
Limit(docs, n) == SubSeq(docs, 1, IF Len(docs) < n THEN Len(docs) ELSE n)

\* Mutant of ListDocumentsTrending: the query without Query.orderDesc.
ListDocumentsTrending_NoOrder(docs) == Limit(docs, TrendingLimit)

\* database.listDocuments(..., [Query.limit(5), Query.orderDesc('count')])
ListDocumentsTrending(docs) == Limit(OrderDescCount(docs), TrendingLimit)

\* A JavaScript value that is an array, or undefined.
Undefined == [isArray |-> FALSE, items |-> <<>>]
Array(items) == [isArray |-> TRUE, items |-> items]

\* What getTrendingMovies returns: result.documents from its try block,
\* nothing (undefined) after its catch block.
GetTrendingMoviesReturn(docs, rejected) ==
  IF rejected THEN Undefined ELSE Array(ListDocumentsTrending(docs))

\* ----------------------------------------------------- loadTrendingMovies

\* loadTrendingMovies() up to its await.
EnterLoadTrendingMovies ==
  /\ isTrendingLoading' = TRUE
  /\ trendingError' = ""
  /\ trend' = [pc |-> "getTrendingMovies", failed |-> FALSE]

\* An outside caller calls loadTrendingMovies().
CallLoadTrendingMovies ==
  /\ trend.pc = "idle"
  /\ EnterLoadTrendingMovies
  /\ UNCHANGED <<store, store0, request, rs, nCalls, overlap, searchTerm,
                 debounceSearchTerm, timers, cleared, errorMessage, moviesList,
                 isLoading, trendingMovies, fetch, mounted>>

\* Whether the promise of getTrendingMovies rejects, given that its awaited
\* request did: its catch block logs the error and falls off the end.
GetTrendingMoviesRejects(rejected) == FALSE

\* await getTrendingMovies() settles: setTrendingMovies(movies), or the catch
\* block on a rejection; then the finally block.
LoadTrendingMoviesResume(movies, rejected) ==
  /\ IF GetTrendingMoviesRejects(rejected)
       THEN /\ trendingError' = TrendingCatchMessage
            /\ UNCHANGED trendingMovies
       ELSE /\ trendingMovies' = movies
            /\ UNCHANGED trendingError
  /\ isTrendingLoading' = FALSE
  /\ trend' = [pc |-> "done", failed |-> rejected]
  /\ UNCHANGED <<store, store0, request, rs, nCalls, overlap, searchTerm,
                 debounceSearchTerm, timers, cleared, errorMessage, moviesList,
                 isLoading, fetch, mounted>>

\* The store serves the trending listDocuments.
GetTrendingResolve ==
  /\ trend.pc = "getTrendingMovies"
  /\ LoadTrendingMoviesResume(GetTrendingMoviesReturn(store, FALSE), FALSE)

\* The trending listDocuments rejects.
GetTrendingFailure ==
  /\ trend.pc = "getTrendingMovies"
  /\ LoadTrendingMoviesResume(GetTrendingMoviesReturn(store, TRUE), TRUE)

\* ------------------------------------------------------------ fetchMovies

\* What the search input may hold.
Inputs == {""} \cup Terms

\* The results lists the movie service may send.
ResultLists == { <<>>, <<MovieById(2), MovieById(1)>> }

\* What the movie service may answer: a non-2xx status, a body with
\* response "False" (with or without Error), a body without results, a body
\* with a results list.
Responses ==
  { [kind |-> "notOk", error |-> "", results |-> <<>>],
    [kind |-> "false", error |-> "Movie not found!", results |-> <<>>],
    [kind |-> "false", error |-> "", results |-> <<>>],
    [kind |-> "noResults", error |-> "", results |-> <<>>] }
  \cup { [kind |-> "results", error |-> "", results |-> r] : r \in ResultLists }

NoResponse == [kind |-> "none", error |-> "", results |-> <<>>]

\* A fetchMovies call: where it stands, its query, the response it holds
\* while it runs, and (history) whether no other fetchMovies call has set
\* errorMessage or moviesList since it started.
IdleFetch == [pc |-> "idle", query |-> "", resp |-> NoResponse,
              undisturbed |-> TRUE]

FetchInFlight == {"fetch", "json", "updateSearchCount"}

\* The calls as call g's write to errorMessage or moviesList leaves them.
Disturb(calls, g) ==
  [f \in DOMAIN calls |->
     IF f # g /\ calls[f].pc \in FetchInFlight
       THEN [calls[f] EXCEPT !.undisturbed = FALSE]
       ELSE calls[f]]

\* The record of a call that has run its finally block; it keeps (history)
\* the response the call received.
Finished(call) == [call EXCEPT !.pc = "done"]

\* fetchMovies(query) up to its first await: the call nCalls + 1.
EnterFetchMovies(query) ==
  /\ nCalls' = nCalls + 1
  /\ isLoading' = TRUE
  /\ errorMessage' = ""
  /\ fetch' = Disturb([fetch EXCEPT ![nCalls + 1] =
                         [pc |-> "fetch", query |-> query,
                          resp |-> NoResponse, undisturbed |-> TRUE]],
                      nCalls + 1)

\* useDebounce(fn, 500, [searchTerm]): a changed dependency clears the
\* pending timeout and sets a new one, whose callback holds the new value.
ResetTimer_KeepPending(pending, value) == pending \cup {value}
ResetTimer(pending, value) == {value}

\* The first render's effects: useDebounce sets its timeout,
\* fetchMovies(debounceSearchTerm) and loadTrendingMovies() are called.
Mount ==
  /\ ~mounted
  /\ mounted' = TRUE
  /\ timers' = ResetTimer(timers, searchTerm)
  /\ EnterFetchMovies(debounceSearchTerm)
  /\ EnterLoadTrendingMovies
  /\ UNCHANGED <<store, store0, request, rs, overlap, searchTerm, debounceSearchTerm,
                 cleared, moviesList, trendingMovies>>

\* onChange: setSearchTerm(value); the changed dependency resets the timeout.
\* Input events are followed as long as a fetchMovies call can still be issued.
ChangeInput(value) ==
  /\ mounted
  /\ nCalls < MaxFetches
  /\ value # searchTerm
  /\ searchTerm' = value
  /\ timers' = ResetTimer(timers, value)
  /\ cleared' = timers
  /\ UNCHANGED <<store, store0, request, rs, nCalls, overlap, debounceSearchTerm,
                 errorMessage, moviesList, isLoading, trendingMovies,
                 isTrendingLoading, trendingError, fetch, trend, mounted>>

\* useEffect(() => { loadTrendingMovies() }, []): the state the effect
\* depends on; it runs again when one of them changes.
TrendingEffectDeps_Debounced == {"debounceSearchTerm"}
TrendingEffectDeps == {}

\* The timeout elapses: setDebounceSearchTerm(searchTerm); when the value
\* changed, the effect on [debounceSearchTerm] calls fetchMovies with it,
\* and so would the trending effect if it depended on it.
DebounceFire ==
  \E value \in timers :
  /\ timers' = timers \ {value}
  /\ debounceSearchTerm' = value
  /\ IF value # debounceSearchTerm
       THEN /\ nCalls < MaxFetches
            /\ EnterFetchMovies(value)
       ELSE UNCHANGED <<nCalls, isLoading, errorMessage, fetch>>
  /\ IF value # debounceSearchTerm
          /\ "debounceSearchTerm" \in TrendingEffectDeps
       THEN EnterLoadTrendingMovies
       ELSE UNCHANGED <<isTrendingLoading, trendingError, trend>>
  /\ UNCHANGED <<store, store0, request, rs, overlap, searchTerm, cleared,
                 moviesList, trendingMovies, mounted>>

\* response.ok: the status is in the range 200-299.
ResponseOk_Unchecked(resp) == TRUE
ResponseOk(resp) == resp.kind # "notOk"

\* await fetch(endpoint, API_OPTIONS) resolves: a response that is not ok
\* throws into the catch and finally blocks, an ok one awaits its json().
FetchResolve(f, resp) ==
  /\ fetch[f].pc = "fetch"
  /\ IF ~ResponseOk(resp)
       THEN /\ errorMessage' = CatchMessage
            /\ isLoading' = FALSE
            /\ fetch' = Disturb([fetch EXCEPT
                                   ![f] = Finished([@ EXCEPT !.resp = resp])], f)
       ELSE /\ fetch' = [fetch EXCEPT ![f].pc = "json", ![f].resp = resp]
            /\ UNCHANGED <<errorMessage, isLoading>>
  /\ UNCHANGED <<store, store0, request, rs, nCalls, overlap, searchTerm,
                 debounceSearchTerm, timers, cleared, moviesList, trendingMovies,
                 isTrendingLoading, trendingError, trend, mounted>>

\* data.Error || 'Failed to fetch movies'
ErrorOrFailed_Generic(data) == FailedMessage
ErrorOrFailed(data) == IF data.error # "" THEN data.error ELSE FailedMessage

\* data.results || []
ResultsOrEmpty_Dropped(data) == <<>>
ResultsOrEmpty(data) == IF data.kind = "results" THEN data.results ELSE <<>>

\* query && data.results.length > 0, for a body that has a results list.
ShouldRecord_AnyQuery(query, results) == Len(results) > 0
ShouldRecord(query, results) == query # "" /\ Len(results) > 0

\* await response.json() resolves: the rest of the try block up to the
\* await of updateSearchCount, or up to the end of the finally block.
FetchBody(f) ==
  /\ fetch[f].pc = "json"
  /\ LET query == fetch[f].query
         data == fetch[f].resp IN
       CASE data.kind = "false" ->
              /\ errorMessage' = ErrorOrFailed(data)
              /\ moviesList' = <<>>
              /\ isLoading' = FALSE
              /\ fetch' = Disturb([fetch EXCEPT ![f] = Finished(@)], f)
              /\ UNCHANGED <<rs, overlap>>
         [] data.kind \in {"noResults", "notOk"} ->
              \* a body without results (the body of a non-2xx answer has
              \* none either): data.results || [] ; then
              \* data.results.length throws a TypeError unless query is falsy
              /\ moviesList' = ResultsOrEmpty(data)
              /\ errorMessage' = (IF query # "" THEN CatchMessage
                                                ELSE errorMessage)
              /\ isLoading' = FALSE
              /\ fetch' = Disturb([fetch EXCEPT ![f] = Finished(@)], f)
              /\ UNCHANGED <<rs, overlap>>
         [] data.kind = "results" /\ ShouldRecord(query, data.results) ->
              /\ moviesList' = ResultsOrEmpty(data)
              /\ rs' = [rs EXCEPT ![f] =
                          EnterUpdateSearchCount(query, data.results[1])]
              /\ overlap' = (overlap \/ SomeCallInFlight)
              /\ fetch' = Disturb([fetch EXCEPT ![f].pc = "updateSearchCount"], f)
              /\ UNCHANGED <<errorMessage, isLoading>>
         [] data.kind = "results" /\ ~ShouldRecord(query, data.results) ->
              /\ moviesList' = ResultsOrEmpty(data)
              /\ isLoading' = FALSE
              /\ fetch' = Disturb([fetch EXCEPT ![f] = Finished(@)], f)
              /\ UNCHANGED <<errorMessage, rs, overlap>>
  /\ UNCHANGED <<store, store0, request, nCalls, searchTerm, debounceSearchTerm,
                 timers, cleared, trendingMovies, isTrendingLoading,
                 trendingError, trend, mounted>>

\* await updateSearchCount(...) settles: a rejection would enter the catch
\* block; then the finally block.
FetchFinally(f) ==
  /\ fetch[f].pc = "updateSearchCount"
  /\ rs[f].pc = "returned"
  /\ errorMessage' = (IF UpdateSearchCountRejects(rs[f].failed)
                        THEN CatchMessage ELSE errorMessage)
  /\ isLoading' = FALSE
  /\ fetch' = [fetch EXCEPT ![f] = Finished(@)]
  /\ UNCHANGED <<store, store0, request, rs, nCalls, overlap, searchTerm,
                 debounceSearchTerm, timers, cleared, moviesList,
                 trendingMovies, isTrendingLoading, trendingError, trend,
                 mounted>>

\* ---------------------------------------------- fetchMovies: the endpoint

\* The characters of a query text: a letter, the space, the percent sign and
\* the reserved characters & = ? # +.
Chars == {"a", " ", "%", "&", "=", "?", "#", "+"}

\* A text is a sequence of characters; in a URL an escape sequence such as
\* "%20" and a literal of the source such as "query" are one element each.
RECURSIVE TextsOfLen(_)
TextsOfLen(n) ==
  IF n = 0 THEN { <<>> }
  ELSE { Append(t, c) : t \in TextsOfLen(n - 1), c \in Chars }

Queries == UNION { TextsOfLen(n) : n \in 0..MaxLen }

\* fetchMovies() called without an argument.
Absent == <<"undefined">>

\* The default parameter: query = ''.
DefaultQuery(query) == IF query = Absent THEN <<>> ELSE query

\* encodeURI: escapes every character except letters, digits, the marks
\* - _ . ! ~ * ' ( ) and the reserved characters ; / ? : @ & = + $ , #
EncodeURIChar(c) ==
  CASE c = " " -> "%20"
    [] c = "%" -> "%25"
    [] OTHER -> c

RECURSIVE EncodeURI(_)
EncodeURI(text) ==
  IF text = <<>> THEN <<>>
  ELSE <<EncodeURIChar(Head(text))>> \o EncodeURI(Tail(text))

ApiBaseUrl == "https://api.themoviedb.org/3"

\* const endpoint = query ? `.../search/movie?query=${encodeURI(query)}`
\*                        : `.../discover/movie?sort_by=popularity.desc`
Endpoint(query) ==
  IF query # <<>>
    THEN <<ApiBaseUrl, "/search/movie", "?", "query", "=">> \o EncodeURI(query)
    ELSE <<ApiBaseUrl, "/discover/movie", "?", "sort_by", "=",
           "popularity.desc">>

NoRequest == [query |-> <<>>, endpoint |-> <<>>]

\* fetchMovies(query) up to the endpoint it requests.
BuildEndpoint(query) ==
  /\ request' = [query |-> query, endpoint |-> Endpoint(DefaultQuery(query))]
  /\ UNCHANGED <<store, store0, rs, nCalls, overlap, searchTerm,
                 debounceSearchTerm, timers, cleared, errorMessage, moviesList,
                 isLoading, trendingMovies, isTrendingLoading, trendingError,
                 fetch, trend, mounted>>

\* ----------------------------------------------------------------- render

\* The trending section of the JSX: what the conditional chain renders.
\* trendingMovies.length on undefined throws a TypeError during render.
TrendingSection ==
  IF isTrendingLoading THEN "spinner"
  ELSE IF trendingError # "" THEN "error"
  ELSE IF ~trendingMovies.isArray THEN "TypeError"
  ELSE IF Len(trendingMovies.items) > 0 THEN "list"
  ELSE "none found"

\* The all-movies section of the JSX.
MoviesSection ==
  IF isLoading THEN "spinner"
  ELSE IF errorMessage # "" THEN "error"
  ELSE "list"

\* ---------------------------------------------------------- initial state

InitUi ==
  /\ searchTerm = ""
  /\ debounceSearchTerm = ""
  /\ timers = {}
  /\ cleared = {}
  /\ errorMessage = ""
  /\ moviesList = <<>>
  /\ isLoading = FALSE
  /\ trendingMovies = Array(<<>>)
  /\ isTrendingLoading = FALSE
  /\ trendingError = ""
  /\ fetch = [f \in Calls |-> IdleFetch]
  /\ trend = [pc |-> "idle", failed |-> FALSE]
  /\ request = NoRequest
  /\ mounted = FALSE

InitCalls ==
  /\ rs = [c \in Calls |-> IdleCall]
  /\ nCalls = 0
  /\ overlap = FALSE

\* The collections a behaviour may find: the empty one, and the one a single
\* completed updateSearchCount("dune", movie 1) leaves behind.
SeedStores ==
  { <<>>,
    CreateDocument(<<>>, UniqueId(<<>>), CreatePayload("dune", MovieById(1))) }

\* ------------------------------------------------------- specifications

\* The adapter alone, called from outside.
InitStore ==
  /\ store \in SeedStores
  /\ store0 = store
  /\ InitCalls
  /\ InitUi

NextStore ==
  \/ \E t \in Terms, m \in Movies : CallUpdateSearchCount(t, m)
  \/ \E c \in Calls : RsListDocuments(c)
  \/ \E c \in Calls : RsUpdateDocument(c)
  \/ \E c \in Calls : RsCreateDocument(c)
  \/ \E c \in Calls : RsStoreFailure(c)

SpecStore == InitStore /\ [][NextStore]_vars

\* The endpoint construction of fetchMovies alone, on every query text of
\* up to MaxLen characters and on the absent argument.
InitEndpoint ==
  /\ store = <<>>
  /\ store0 = store
  /\ InitCalls
  /\ InitUi

NextEndpoint == \E query \in Queries \cup {Absent} : BuildEndpoint(query)

SpecEndpoint == InitEndpoint /\ [][NextEndpoint]_vars

\* The trending read alone, on any collection of up to MaxDocs documents
\* with counts up to MaxCount, and on the collection with the counts
\* 3, 1, 5, 2, 4, 0.
DocWithCount(i, n) ==
  [id |-> i, searchTerm |-> IF i % 2 = 1 THEN "dune" ELSE "up", count |-> n,
   movie_id |-> 1, poster_url |-> PosterUrl(MovieById(1))]

StoreWithCounts(counts) ==
  [i \in DOMAIN counts |-> DocWithCount(i, counts[i])]

InitTrending ==
  /\ \/ \E len \in 0..MaxDocs :
          \E counts \in [1..len -> 0..MaxCount] :
            store = StoreWithCounts(counts)
     \/ store = StoreWithCounts(<<3, 1, 5, 2, 4, 0>>)
  /\ store0 = store
  /\ InitCalls
  /\ InitUi

NextTrending ==
  \/ CallLoadTrendingMovies
  \/ GetTrendingResolve
  \/ GetTrendingFailure

SpecTrending == InitTrending /\ [][NextTrending]_vars

\* The page: one session of the App component.
Init ==
  /\ store \in SeedStores
  /\ store0 = store
  /\ InitCalls
  /\ InitUi

Fetches == 1..MaxFetches

Next ==
  \/ Mount
  \/ \E v \in Inputs : ChangeInput(v)
  \/ DebounceFire
  \/ \E f \in Fetches, resp \in Responses : FetchResolve(f, resp)
  \/ \E f \in Fetches : FetchBody(f)
  \/ \E f \in Fetches : FetchFinally(f)
  \/ \E c \in Calls : RsListDocuments(c)
  \/ \E c \in Calls : RsUpdateDocument(c)
  \/ \E c \in Calls : RsCreateDocument(c)
  \/ \E c \in Calls : RsStoreFailure(c)
  \/ GetTrendingResolve
  \/ GetTrendingFailure

Spec == Init /\ [][Next]_vars

\* What the event loop guarantees of a fetchMovies call: once the response
\* is there its body is read, and once the awaited updateSearchCount has
\* returned the continuation runs to the end of the finally block.  Nothing
\* obliges the movie service or the document store to answer.
Fairness ==
  \A f \in Fetches : WF_vars(FetchBody(f)) /\ WF_vars(FetchFinally(f))

SpecLive == Init /\ [][Next]_vars /\ Fairness

\* ------------------------------------------------- vocabulary of the claims

\* The positions of the documents of docs whose searchTerm is t.
TermRecords(docs, t) == {i \in DOMAIN docs : docs[i].searchTerm = t}

\* The calls for term t that have returned.
Completed(t) == {c \in Calls : rs[c].pc = "returned" /\ rs[c].term = t}

\* No call has logged a store failure.
NoStoreFailure == \A c \in Calls : ~rs[c].failed

\* The poster URL the template gives for the movie with this id.
ExpectedPosterUrl(id) ==
  IF MovieById(id).poster_path = Null
    THEN "https://image.tmdb.org/t/p/w500null"
    ELSE "https://image.tmdb.org/t/p/w500" \o MovieById(id).poster_path

\* c's awaited write of the given kind is served in this step.
Served(c, kind) ==
  /\ rs[c].pc = kind
  /\ rs'[c].pc = "returned"
  /\ ~rs'[c].failed

\* ---------------------------------------------------------------- claims

\* C1: n calls of updateSearchCount(t, movie), one strictly after another and
\* none with a store failure, on a store that had no record for t, leave
\* exactly one record for t, and its count is n.
C1_SequentialCount ==
  (~overlap /\ NoStoreFailure /\ ~SomeCallInFlight) =>
    \A t \in Terms :
      TermRecords(store0, t) = {} =>
        LET n == Cardinality(Completed(t)) IN
          IF n = 0
            THEN TermRecords(store, t) = {}
            ELSE \E i \in DOMAIN store :
                   /\ TermRecords(store, t) = {i}
                   /\ store[i].count = n

C1_Witness ==
  /\ ~overlap /\ NoStoreFailure /\ ~SomeCallInFlight
  /\ \E t \in Terms :
       /\ TermRecords(store0, t) = {}
       /\ Cardinality(Completed(t)) = 2
       /\ \E i \in DOMAIN store : store[i].searchTerm = t /\ store[i].count = 2

\* C2: while no call starts before the previous one has returned, the store
\* holds at most one record per search term.
C2_AtMostOnePerTerm ==
  ~overlap => \A t \in Terms : Cardinality(TermRecords(store, t)) <= 1

C2_Witness ==
  /\ ~overlap
  /\ \E t \in Terms :
       /\ Cardinality(Completed(t)) >= 2
       /\ Cardinality(TermRecords(store, t)) = 1

\* C3: two calls for one term that both read "not found" and both complete
\* their write each create a record: the term then has two records or more.
C3_BothCreate ==
  \A c1, c2 \in Calls :
    ( /\ c1 # c2
      /\ rs[c1].pc = "returned" /\ rs[c2].pc = "returned"
      /\ rs[c1].term = rs[c2].term
      /\ ~rs[c1].found /\ ~rs[c2].found
      /\ ~rs[c1].failed /\ ~rs[c2].failed )
    => Cardinality(TermRecords(store, rs[c1].term)) >= 2

C3_Witness ==
  \E c1, c2 \in Calls :
    /\ c1 # c2
    /\ rs[c1].pc = "returned" /\ rs[c2].pc = "returned"
    /\ rs[c1].term = rs[c2].term
    /\ ~rs[c1].found /\ ~rs[c2].found
    /\ ~rs[c1].failed /\ ~rs[c2].failed
    /\ Cardinality(TermRecords(store, rs[c1].term)) = 2

\* C4: every record's count is a positive integer and no step lowers the
\* count of an existing record, whatever the interleaving of the calls.
C4_CountMonotone ==
  [][ /\ \A i \in DOMAIN store' : store'[i].count >= 1
      /\ \A i \in DOMAIN store : store'[i].count >= store[i].count ]_vars

\* C5: the write of a call that found a record sets that record's count to
\* the count read plus one, leaves its other fields and every other record
\* alone, and adds no record.
C5_UpdateFrame ==
  [][ \A c \in Calls :
        Served(c, "updateDocument") =>
          /\ Len(store') = Len(store)
          /\ \A i \in DOMAIN store :
               IF store[i].id = rs[c].doc.id
                 THEN store'[i] = [store[i] EXCEPT !.count = rs[c].doc.count + 1]
                 ELSE store'[i] = store[i] ]_vars

C5_Witness ==
  \E c \in Calls :
    /\ rs[c].pc = "returned" /\ rs[c].found /\ ~rs[c].failed
    /\ \E i \in DOMAIN store :
         /\ store[i].searchTerm = rs[c].term
         /\ store[i].movie_id # rs[c].movie
         /\ store[i].count >= 2

\* C6: the write of a call that found no record appends exactly one record,
\* with the call's term, count 1, the movie's id and the poster URL made
\* from the movie's poster_path, and changes no existing record.
C6_CreateFrame ==
  [][ \A c \in Calls :
        Served(c, "createDocument") =>
          /\ Len(store') = Len(store) + 1
          /\ \A i \in DOMAIN store : store'[i] = store[i]
          /\ LET d == store'[Len(store')] IN
               /\ d.searchTerm = rs[c].term
               /\ d.count = 1
               /\ d.movie_id = rs[c].movie
               /\ d.poster_url = ExpectedPosterUrl(rs[c].movie) ]_vars

C6_Witness ==
  \E c \in Calls :
    /\ rs[c].pc = "returned" /\ ~rs[c].found /\ ~rs[c].failed
    /\ Len(store) >= 2
    /\ \E i \in DOMAIN store :
         /\ store[i].searchTerm = rs[c].term
         /\ store[i].count = 1
         /\ store[i].movie_id = rs[c].movie
         /\ store[i].poster_url = ExpectedPosterUrl(rs[c].movie)

\* f's finally block runs in this step.
Finishes(f) == fetch[f].pc \in FetchInFlight /\ fetch'[f].pc = "done"

\* f ends in this step, after a movie request that succeeded with results
\* and an updateSearchCount call that met a store failure.
FinishesAfterStoreFailure(f) ==
  /\ Finishes(f)
  /\ fetch[f].pc = "updateSearchCount"
  /\ fetch[f].resp.kind = "results"
  /\ rs[f].failed

\* C7 as stated: a fetchMovies call whose movie request succeeded and whose
\* updateSearchCount met a store failure ends with moviesList set to the
\* fetched results and errorMessage empty.
C7_EndsWithResults ==
  [][ \A f \in Fetches :
        FinishesAfterStoreFailure(f) =>
          /\ moviesList' = fetch[f].resp.results
          /\ errorMessage' = ""
          /\ ~isLoading' ]_vars

\* C7 amended: the store failure is caught inside updateSearchCount, and the
\* call ends without changing moviesList or errorMessage; it ends with
\* moviesList set to the fetched results and errorMessage empty when no
\* other fetchMovies call has set them since the call started.
C7_FailureSwallowed ==
  [][ \A f \in Fetches :
        FinishesAfterStoreFailure(f) =>
          /\ moviesList' = moviesList
          /\ errorMessage' = errorMessage
          /\ ~isLoading'
          /\ fetch[f].undisturbed =>
               /\ moviesList' = fetch[f].resp.results
               /\ errorMessage' = "" ]_vars

C7_Witness ==
  \E f \in Fetches :
    /\ fetch[f].pc = "done"
    /\ fetch[f].undisturbed
    /\ fetch[f].query # ""
    /\ rs[f].pc = "returned" /\ rs[f].failed
    /\ moviesList = <<MovieById(2), MovieById(1)>>
    /\ errorMessage = ""
    /\ ~isLoading

\* C8: a successful trending read returns min(5, number of records)
\* distinct records of the store, in non-increasing order of count, none of
\* them with a lower count than a record left out.
C8_TopFive ==
  (trend.pc = "done" /\ ~trend.failed) =>
    /\ trendingMovies.isArray
    /\ LET r == trendingMovies.items
           ids == {r[i].id : i \in DOMAIN r} IN
         /\ Len(r) = (IF Len(store) < 5 THEN Len(store) ELSE 5)
         /\ \A i \in DOMAIN r : r[i].id \in DOMAIN store /\ r[i] = store[r[i].id]
         /\ \A i, j \in DOMAIN r : i < j => r[i].id # r[j].id
         /\ \A i, j \in DOMAIN r : i < j => r[i].count >= r[j].count
         /\ \A i \in DOMAIN r, k \in DOMAIN store :
              k \notin ids => r[i].count >= store[k].count

C8_Witness ==
  /\ trend.pc = "done" /\ ~trend.failed
  /\ [i \in DOMAIN store |-> store[i].count] = <<3, 1, 5, 2, 4, 0>>
  /\ [i \in DOMAIN trendingMovies.items |-> trendingMovies.items[i].count]
       = <<5, 4, 3, 2, 1>>

\* C9: no failure is fatal: each section always has something it can
\* render, the trending list being a list unless its error message is set.
C9_NoFatalState ==
  /\ trendingMovies.isArray \/ trendingError # ""
  /\ TrendingSection # "TypeError"
  /\ MoviesSection # "TypeError"

\* C10: after a failed trending read the value loadTrendingMovies got is not
\* the empty list of a store without records, and the trending section
\* shows that there is no trending data (its error or its fallback).
C10_AbsentIsNoData ==
  (trend.pc = "done" /\ trend.failed) =>
    /\ GetTrendingMoviesReturn(store, TRUE) # GetTrendingMoviesReturn(<<>>, FALSE)
    /\ TrendingSection \in {"error", "none found"}

\* C11: a fetchMovies call that received a non-2xx response, for the empty
\* query as for a search, never goes on to read the body or to call
\* updateSearchCount, and the step that ends it leaves errorMessage at the
\* non-empty generic message and isLoading false, with the store untouched.
C11_NotOkIsError ==
  [][\A f \in Fetches :
       fetch'[f].resp.kind = "notOk" =>
         /\ fetch'[f].pc = "done"
         /\ rs'[f] = IdleCall
         /\ Finishes(f) =>
              /\ errorMessage' = CatchMessage
              /\ errorMessage' # ""
              /\ ~isLoading'
              /\ store' = store]_vars

\* Both a popular-list call and a search call have ended on a non-2xx
\* response.
C11_Witness ==
  \E f, g \in Fetches :
    /\ fetch[f].pc = "done" /\ fetch[f].resp.kind = "notOk"
    /\ fetch[g].pc = "done" /\ fetch[g].resp.kind = "notOk"
    /\ fetch[f].query = "" /\ fetch[g].query # ""
    /\ errorMessage = CatchMessage /\ ~isLoading

\* C12: every fetchMovies call issued after the mount has the value the
\* search input holds, issued by the elapsing of the one timeout that the
\* latest input event set, and every input event replaces the pending
\* timeouts by one for the new value, so that no call is issued for a value
\* that was overwritten before its timeout elapsed.
C12_OnlySettledInput ==
  [][/\ \A f \in Fetches :
          (mounted /\ fetch[f].pc = "idle" /\ fetch'[f].pc = "fetch") =>
            /\ fetch'[f].query = searchTerm
            /\ searchTerm' = searchTerm
            /\ timers = {searchTerm}
            /\ timers' = {}
     /\ searchTerm' # searchTerm => timers' = {searchTerm'}]_vars

\* A call was issued for "up" after the input had held "dune" and the input
\* event for "up" had cleared the timeout set for "dune"; no call was issued
\* for "dune".
C12_Witness ==
  \E f \in Fetches :
    /\ f > 1
    /\ fetch[f].pc = "fetch" /\ fetch[f].query = "up"
    /\ searchTerm = "up" /\ debounceSearchTerm = "up"
    /\ cleared = {"dune"}
    /\ \A g \in Fetches : fetch[g].query # "dune"

\* C13: no fetchMovies call is cancelled or checked against the latest
\* debounced term: a call in flight stays in flight with its query when the
\* debounced term changes, and a call whose body carries results sets
\* moviesList to them whatever the debounced term is by then; the state where
\* all calls have completed and moviesList holds the older query's results
\* is C13_Witness.
C13_NoGenerationCheck ==
  [][\A f \in Fetches :
       /\ (fetch[f].pc \in FetchInFlight
             /\ debounceSearchTerm' # debounceSearchTerm) =>
            /\ fetch'[f].pc = fetch[f].pc
            /\ fetch'[f].query = fetch[f].query
       /\ (fetch[f].pc = "json" /\ fetch'[f].pc # "json"
             /\ fetch[f].resp.kind = "results") =>
            moviesList' = fetch[f].resp.results]_vars

\* All calls have completed, the debounced term is the second call's query,
\* and moviesList holds the results of the first call's older query, which
\* differ from the results the second call received.
C13_Witness ==
  /\ \A f \in Fetches : fetch[f].pc = "done"
  /\ fetch[1].query # fetch[2].query
  /\ debounceSearchTerm = fetch[2].query
  /\ fetch[1].resp.kind = "results" /\ fetch[2].resp.kind = "results"
  /\ moviesList = fetch[1].resp.results
  /\ moviesList # fetch[2].resp.results
  /\ errorMessage = ""

\* The call's query is non-empty and its response is a success whose results
\* list has at least one element.
Qualifies(f) ==
  /\ fetch[f].query # ""
  /\ fetch[f].resp.kind = "results"
  /\ Len(fetch[f].resp.results) > 0

\* C14: updateSearchCount has been entered only by fetchMovies calls whose
\* query is non-empty and whose successful response has at least one result,
\* and then with that query and the first result; as long as no call has
\* entered it (popular-list fetches, searches without results, failed
\* fetches) the store is as it was at the start.
C14_RecordsOnlySearchHits ==
  /\ \A c \in Calls :
       rs[c] # IdleCall =>
         /\ c \in Fetches
         /\ Qualifies(c)
         /\ rs[c].term = fetch[c].query
         /\ rs[c].movie = fetch[c].resp.results[1].id
  /\ (\A c \in Calls : rs[c] = IdleCall) => store = store0

\* One search call with results has written to the store, while a
\* popular-list call that also received results has ended without entering
\* updateSearchCount.
C14_Witness ==
  \E f, g \in Fetches :
    /\ Qualifies(f) /\ rs[f].pc = "returned" /\ ~rs[f].failed
    /\ store # store0
    /\ fetch[g].pc = "done" /\ fetch[g].query = ""
    /\ fetch[g].resp.kind = "results" /\ Len(fetch[g].resp.results) > 0
    /\ rs[g] = IdleCall

\* How the receiver of a URL reads it: the fragment starts at the first "#",
\* the query string at the first "?", its parameters are separated by "&",
\* and a parameter's name ends at its first "=".
RECURSIVE Before(_, _)
Before(text, c) ==
  IF text = <<>> \/ Head(text) = c THEN <<>>
  ELSE <<Head(text)>> \o Before(Tail(text), c)

RECURSIVE After(_, _)
After(text, c) ==
  IF text = <<>> THEN <<>>
  ELSE IF Head(text) = c THEN Tail(text) ELSE After(Tail(text), c)

RECURSIVE Split(_, _)
Split(text, c) ==
  IF \E i \in DOMAIN text : text[i] = c
    THEN <<Before(text, c)>> \o Split(After(text, c), c)
    ELSE <<text>>

PercentDecode(text) ==
  [i \in DOMAIN text |->
     CASE text[i] = "%20" -> " "
       [] text[i] = "%25" -> "%"
       [] OTHER -> text[i]]

UrlPath(url) == url[2]

UrlParams(url) ==
  LET pieces == Split(After(Before(url, "#"), "?"), "&") IN
    [i \in DOMAIN pieces |->
       [name |-> Before(pieces[i], "="),
        value |-> PercentDecode(After(pieces[i], "="))]]

\* C15: the endpoint fetchMovies builds depends on the query alone: for an
\* empty or absent query it is the discover endpoint with the one parameter
\* sort_by = popularity.desc, and for every non-empty query it is the search
\* endpoint whose parameters, as the receiver reads them, are exactly the one
\* parameter query = the query text.
C15_EndpointFromQuery ==
  request # NoRequest =>
    LET query == DefaultQuery(request.query)
        url == request.endpoint IN
      IF query = <<>>
        THEN /\ UrlPath(url) = "/discover/movie"
             /\ UrlParams(url) = << [name |-> <<"sort_by">>,
                                     value |-> <<"popularity.desc">>] >>
        ELSE /\ UrlPath(url) = "/search/movie"
             /\ UrlParams(url) = << [name |-> <<"query">>, value |-> query] >>

\* C16: a fetchMovies call whose response is a success with a body whose
\* response field is "False" ends in the step that reads the body, without
\* entering updateSearchCount or touching the store, and that step leaves
\* errorMessage at the body's Error text (the fallback message when the body
\* has none), moviesList empty and isLoading false.
C16_FalseBodyIsError ==
  [][\A f \in Fetches :
       fetch'[f].resp.kind = "false" =>
         /\ fetch'[f].pc \in {"json", "done"}
         /\ rs'[f] = IdleCall
         /\ Finishes(f) =>
              /\ errorMessage' = (IF fetch[f].resp.error # ""
                                    THEN fetch[f].resp.error
                                    ELSE FailedMessage)
              /\ errorMessage' # ""
              /\ moviesList' = <<>>
              /\ ~isLoading'
              /\ store' = store]_vars

\* A search call has ended on a "False" body that carried an Error text, and
\* a popular-list call on one that carried none.
C16_Witness ==
  \E f, g \in Fetches :
    /\ fetch[f].pc = "done" /\ fetch[f].resp.kind = "false"
    /\ fetch[f].resp.error = "" /\ fetch[f].query = ""
    /\ fetch[g].pc = "done" /\ fetch[g].resp.kind = "false"
    /\ fetch[g].resp.error # "" /\ fetch[g].query # ""
    /\ errorMessage = fetch[g].resp.error
    /\ moviesList = <<>> /\ ~isLoading

\* C17: a fetchMovies call, for any query, whose response is a success
\* without an application-level failure (a body with a results list or
\* without a results field) ends with errorMessage empty and moviesList
\* equal to the body's results, or empty when the body has none; stated for
\* the calls no other call's write has overlapped.
C17_SuccessEndsClean ==
  [][\A f \in Fetches :
       (Finishes(f) /\ fetch[f].undisturbed
          /\ fetch[f].resp.kind \in {"results", "noResults"}) =>
         /\ errorMessage' = ""
         /\ moviesList' = ResultsOrEmpty(fetch[f].resp)]_vars

\* C18: isLoading is true in every state in which some fetchMovies call has
\* been issued and has not yet finished.
C18_LoadingWhileInFlight ==
  (\E f \in Fetches : fetch[f].pc \in FetchInFlight) => isLoading

\* C19: every fetchMovies call whose response has arrived eventually runs
\* its finally block (isLoading set to false, its results no longer behind
\* the spinner), whatever the document store does with the request of the
\* updateSearchCount call it awaits.
C19_ArrivedEventuallyDone ==
  \A f \in Fetches :
    (fetch[f].pc \in {"json", "updateSearchCount"}) ~> (fetch[f].pc = "done")

\* C20: when every updateSearchCount call started for a term that had
\* exactly one record at the start has returned, none with a store failure,
\* that record's count is its initial count plus the number of those calls,
\* however the calls' reads and writes interleaved.
C20_NoLostIncrement ==
  (NoStoreFailure /\ ~SomeCallInFlight) =>
    \A t \in Terms :
      Cardinality(TermRecords(store0, t)) = 1 =>
        LET i == CHOOSE j \in TermRecords(store0, t) : TRUE IN
          store[i].count = store0[i].count + Cardinality(Completed(t))

\* The trending panel's state and the call that loads it.
trendingVars == <<trendingMovies, trendingError, isTrendingLoading, trend>>

\* C21: loadTrendingMovies is called once, by the mount, and never again
\* once it is done; after the mount no step of a fetchMovies call (issued,
\* resumed or finished) and no step of an updateSearchCount call or write to
\* the store changes trendingMovies, trendingError or isTrendingLoading, so
\* the trending list stays what the startup read returned.
C21_TrendingReadOnce ==
  [][/\ (trend'.pc = "getTrendingMovies" /\ trend.pc # "getTrendingMovies") =>
          (~mounted /\ mounted' /\ trend.pc = "idle")
     /\ trend.pc = "done" => trendingVars' = trendingVars
     /\ (mounted /\ (fetch' # fetch \/ rs' # rs \/ store' # store)) =>
          trendingVars' = trendingVars]_vars

\* The startup read has returned the list of the store as it was, a search
\* recorded afterwards has changed what a read would return now, and the
\* trending list still is the startup one.
C21_Witness ==
  /\ trend.pc = "done" /\ ~trend.failed /\ ~isTrendingLoading
  /\ trendingMovies = GetTrendingMoviesReturn(store0, FALSE)
  /\ trendingMovies # GetTrendingMoviesReturn(store, FALSE)
  /\ \E f \in Fetches :
       /\ fetch[f].pc = "done"
       /\ rs[f].pc = "returned" /\ ~rs[f].failed

====
